---- MODULE Spec2Model ----
(***************************************************************************)
(* A model of package tools (src/tools/tools.go): the tool installer       *)
(* (DownloadFile, InstallFromURL) over a small file system and network,    *)
(* and the stepman / envman command facade over an external process.       *)
(***************************************************************************)
EXTENDS Integers, Sequences, FiniteSets, TLC

(***************************************************************************)
(* Bounds of the model.                                                    *)
(***************************************************************************)
\* longest response body, in bytes
MaxLen == 2

\* most characters an external process writes
MaxEvents == 2

(***************************************************************************)
(* Values.                                                                 *)
(***************************************************************************)
Callers == {"c1", "c2"}

\* toolBinName arguments; the empty name is the one InstallFromURL rejects
Names == {"", "envman"}

URLs == {"u1", "u2"}

\* payload bytes; 0 is kept for the byte a hole of a sparse file reads as, and
\* 9 for the bytes of a file installed before the program ran
Bytes == {1, 2}

Bodies == UNION {[1..n -> Bytes] : n \in 0..MaxLen}

\* HTTP status codes a server may answer with
Statuses == {200, 404}

\* os.Create opens with mode 0666 before umask (022): 0644
CreateMode == 420

\* the mode InstallFromURL sets: 0755
ExecMode == 493

\* permission bits a file installed before the program ran may carry: 0600, 0644
OldModes == {384, 420}

\* configs.GetBitriseToolsDirPath()
ToolsDir == "tools"

\* filepath.Join(dir, name): joining with the empty name gives the directory
Join(dir, name) == IF name = "" THEN <<dir>> ELSE <<dir, name>>

Paths == {Join(ToolsDir, n) : n \in Names \ {""}}

Absent == [exists |-> FALSE, content |-> <<>>, mode |-> 0]

OldFile(m) == [exists |-> TRUE, content |-> [i \in 1..(MaxLen + 1) |-> 9], mode |-> m]

NoResp == [status |-> 0, body |-> <<>>, open |-> FALSE]

NoHandle == [open |-> FALSE, off |-> 0]

\* the nil error; an error is the sequence of the parts of its message
Nil == <<>>

\* fmt.Errorf(format, err): the wrapping message followed by the wrapped error
Wrap(msg, err) == <<msg>> \o err

\* owner, group and other may execute
HasExec(m) == (m \div 64) % 2 = 1 /\ (m \div 8) % 2 = 1 /\ m % 2 = 1

VARIABLES fs, pc, binName, url, outFile, resp, dl, ret, io, warned,
          logLevel, inv, running, proc, res

installVars == <<fs, pc, binName, url, outFile, resp, dl, ret, io, warned>>

facadeVars == <<logLevel, inv, running, proc, res>>

vars == <<installVars, facadeVars>>

InitInstall ==
    /\ fs \in [Paths -> {Absent} \cup {OldFile(m) : m \in OldModes}]
    /\ pc = [c \in Callers |-> "idle"]
    /\ binName = [c \in Callers |-> ""]
    /\ url = [c \in Callers |-> "u1"]
    /\ outFile = [c \in Callers |-> NoHandle]
    /\ resp = [c \in Callers |-> NoResp]
    /\ dl = [c \in Callers |-> Nil]
    /\ ret = [c \in Callers |-> Nil]
    /\ io = [c \in Callers |-> {}]
    /\ warned = [c \in Callers |-> FALSE]

destinationPth(c) == Join(ToolsDir, binName[c])

(***************************************************************************)
(* File system calls.                                                      *)
(***************************************************************************)
\* mutant: the file is opened without O_TRUNC
CreateFileNoTrunc(f) ==
    [exists |-> TRUE, content |-> f.content, mode |-> IF f.exists THEN f.mode ELSE CreateMode]

\* os.Create: O_RDWR|O_CREATE|O_TRUNC; an existing file keeps its mode
CreateFile(f) ==
    [exists |-> TRUE, content |-> <<>>, mode |-> IF f.exists THEN f.mode ELSE CreateMode]

\* write(2) of one byte at the handle's own offset; a gap reads as zeroes
WriteAt(content, off, b) ==
    LET n == IF off + 1 > Len(content) THEN off + 1 ELSE Len(content)
    IN [i \in 1..n |-> IF i = off + 1 THEN b
                       ELSE IF i <= Len(content) THEN content[i] ELSE 0]

\* mutant: execute permission for the owner alone (0744)
ChmodFileOwnerOnly(f) == [f EXCEPT !.mode = 484]

\* os.Chmod(path, 0755)
ChmodFile(f) == [f EXCEPT !.mode = ExecMode]

\* mutant: the name is not checked before the download starts
InstallFromURLNoCheck(c, name, u) ==
    /\ pc[c] \in {"idle", "done"}
    /\ binName' = [binName EXCEPT ![c] = name]
    /\ url' = [url EXCEPT ![c] = u]
    /\ io' = [io EXCEPT ![c] = {}]
    /\ warned' = [warned EXCEPT ![c] = FALSE]
    /\ outFile' = [outFile EXCEPT ![c] = NoHandle]
    /\ resp' = [resp EXCEPT ![c] = NoResp]
    /\ dl' = [dl EXCEPT ![c] = Nil]
    /\ ret' = [ret EXCEPT ![c] = Nil]
    /\ pc' = [pc EXCEPT ![c] = "create"]
    /\ UNCHANGED <<fs, facadeVars>>

(***************************************************************************)
(* InstallFromURL, entry: the name check and the destination path.         *)
(***************************************************************************)
InstallFromURL(c, name, u) ==
    /\ pc[c] \in {"idle", "done"}
    /\ binName' = [binName EXCEPT ![c] = name]
    /\ url' = [url EXCEPT ![c] = u]
    /\ io' = [io EXCEPT ![c] = {}]
    /\ warned' = [warned EXCEPT ![c] = FALSE]
    /\ outFile' = [outFile EXCEPT ![c] = NoHandle]
    /\ resp' = [resp EXCEPT ![c] = NoResp]
    /\ dl' = [dl EXCEPT ![c] = Nil]
    /\ IF Len(name) < 1
         THEN /\ ret' = [ret EXCEPT ![c] = <<"No Tool (bin) Name provided!", u>>]
              /\ pc' = [pc EXCEPT ![c] = "done"]
         ELSE /\ ret' = [ret EXCEPT ![c] = Nil]
              /\ pc' = [pc EXCEPT ![c] = "create"]
    /\ UNCHANGED <<fs, facadeVars>>

\* mutant: InstallFromURL goes on to os.Chmod whatever DownloadFile returned
DownloadReturnIgnored(c, err, closeFails) ==
    /\ outFile' = [outFile EXCEPT ![c] = NoHandle]
    /\ resp' = [resp EXCEPT ![c].open = FALSE]
    /\ warned' = [warned EXCEPT ![c] = closeFails]
    /\ dl' = [dl EXCEPT ![c] = err]
    /\ pc' = [pc EXCEPT ![c] = "chmod"]
    /\ UNCHANGED ret

\* mutant: the body is closed after the copy's error check, not deferred
DownloadReturnLeak(c, err, closeFails) ==
    /\ outFile' = [outFile EXCEPT ![c] = NoHandle]
    /\ resp' = [resp EXCEPT ![c].open = IF err # Nil THEN @ ELSE FALSE]
    /\ warned' = [warned EXCEPT ![c] = closeFails]
    /\ dl' = [dl EXCEPT ![c] = err]
    /\ IF err # Nil
         THEN /\ ret' = [ret EXCEPT ![c] = Wrap("Failed to download", err)]
              /\ pc' = [pc EXCEPT ![c] = "done"]
         ELSE /\ pc' = [pc EXCEPT ![c] = "chmod"]
              /\ UNCHANGED ret

(***************************************************************************)
(* DownloadFile returns err: the deferred closes run, then InstallFromURL  *)
(* either wraps the error and returns or goes on to os.Chmod.  A Close     *)
(* that fails only logs a warning.                                         *)
(***************************************************************************)
DownloadReturn(c, err, closeFails) ==
    /\ outFile' = [outFile EXCEPT ![c] = NoHandle]
    /\ resp' = [resp EXCEPT ![c].open = FALSE]
    /\ warned' = [warned EXCEPT ![c] = closeFails]
    /\ dl' = [dl EXCEPT ![c] = err]
    /\ IF err # Nil
         THEN /\ ret' = [ret EXCEPT ![c] = Wrap("Failed to download", err)]
              /\ pc' = [pc EXCEPT ![c] = "done"]
         ELSE /\ pc' = [pc EXCEPT ![c] = "chmod"]
              /\ UNCHANGED ret

\* mutant: a status other than 200 is reported as a download error
CopyResultChecked(r) == IF r.status = 200 THEN Nil ELSE <<"bad status">>

\* mutant: the destination is locked from os.Create to the end of the call
CreateOkLocked(c) ==
    /\ pc[c] = "create"
    /\ \A d \in Callers \ {c} :
          pc[d] \in {"get", "copy", "chmod"} => destinationPth(d) # destinationPth(c)
    /\ fs' = [fs EXCEPT ![destinationPth(c)] = CreateFile(@)]
    /\ outFile' = [outFile EXCEPT ![c] = [open |-> TRUE, off |-> 0]]
    /\ io' = [io EXCEPT ![c] = @ \cup {"create"}]
    /\ pc' = [pc EXCEPT ![c] = "get"]
    /\ UNCHANGED <<binName, url, resp, dl, ret, warned, facadeVars>>

\* what DownloadFile returns once io.Copy has reached the end of the body: the
\* response's status is never looked at
CopyResult(r) == Nil

\* os.Create succeeds
CreateOk(c) ==
    /\ pc[c] = "create"
    /\ fs' = [fs EXCEPT ![destinationPth(c)] = CreateFile(@)]
    /\ outFile' = [outFile EXCEPT ![c] = [open |-> TRUE, off |-> 0]]
    /\ io' = [io EXCEPT ![c] = @ \cup {"create"}]
    /\ pc' = [pc EXCEPT ![c] = "get"]
    /\ UNCHANGED <<binName, url, resp, dl, ret, warned, facadeVars>>

\* os.Create fails: outFile is nil, the deferred Close of it fails and warns
CreateFail(c) ==
    /\ pc[c] = "create"
    /\ io' = [io EXCEPT ![c] = @ \cup {"create"}]
    /\ DownloadReturn(c, <<"failed to create">> \o destinationPth(c), TRUE)
    /\ UNCHANGED <<fs, binName, url, facadeVars>>

\* http.Get answers: any status, any body
GetOk(c) ==
    /\ pc[c] = "get"
    /\ \E st \in Statuses, body \in Bodies :
          resp' = [resp EXCEPT ![c] = [status |-> st, body |-> body, open |-> TRUE]]
    /\ io' = [io EXCEPT ![c] = @ \cup {"get"}]
    /\ pc' = [pc EXCEPT ![c] = "copy"]
    /\ UNCHANGED <<fs, binName, url, outFile, dl, ret, warned, facadeVars>>

\* http.Get fails at transport level
GetFail(c) ==
    /\ pc[c] = "get"
    /\ io' = [io EXCEPT ![c] = @ \cup {"get"}]
    /\ \E closeFails \in BOOLEAN :
          DownloadReturn(c, <<"failed to download from", url[c], "transport">>, closeFails)
    /\ UNCHANGED <<fs, binName, url, facadeVars>>

\* io.Copy: one more byte of the body is written at the handle's offset
CopyByte(c) ==
    /\ pc[c] = "copy"
    /\ outFile[c].off < Len(resp[c].body)
    /\ fs' = [fs EXCEPT ![destinationPth(c)].content =
                 WriteAt(@, outFile[c].off, resp[c].body[outFile[c].off + 1])]
    /\ outFile' = [outFile EXCEPT ![c].off = @ + 1]
    /\ io' = [io EXCEPT ![c] = @ \cup {"write"}]
    /\ UNCHANGED <<pc, binName, url, resp, dl, ret, warned, facadeVars>>

\* io.Copy fails: the body read or the file write returns an error
CopyFail(c) ==
    /\ pc[c] = "copy"
    /\ \E closeFails \in BOOLEAN :
          DownloadReturn(c, <<"failed to download from", url[c], "copy">>, closeFails)
    /\ UNCHANGED <<fs, binName, url, io, facadeVars>>

\* io.Copy reaches the end of the body: DownloadFile returns nil
CopyDone(c) ==
    /\ pc[c] = "copy"
    /\ outFile[c].off = Len(resp[c].body)
    /\ \E closeFails \in BOOLEAN :
          DownloadReturn(c, CopyResult(resp[c]), closeFails)
    /\ UNCHANGED <<fs, binName, url, io, facadeVars>>

\* os.Chmod succeeds: InstallFromURL returns nil
ChmodOk(c) ==
    /\ pc[c] = "chmod"
    /\ fs' = [fs EXCEPT ![destinationPth(c)] = ChmodFile(@)]
    /\ io' = [io EXCEPT ![c] = @ \cup {"chmod"}]
    /\ ret' = [ret EXCEPT ![c] = Nil]
    /\ pc' = [pc EXCEPT ![c] = "done"]
    /\ UNCHANGED <<binName, url, outFile, resp, dl, warned, facadeVars>>

\* os.Chmod fails
ChmodFail(c) ==
    /\ pc[c] = "chmod"
    /\ io' = [io EXCEPT ![c] = @ \cup {"chmod"}]
    /\ ret' = [ret EXCEPT ![c] = <<"Failed to make file executable">> \o destinationPth(c)]
    /\ pc' = [pc EXCEPT ![c] = "done"]
    /\ UNCHANGED <<fs, binName, url, outFile, resp, dl, warned, facadeVars>>

Step(c) ==
    \/ CreateOk(c)
    \/ CreateFail(c)
    \/ GetOk(c)
    \/ GetFail(c)
    \/ CopyByte(c)
    \/ CopyFail(c)
    \/ CopyDone(c)
    \/ ChmodOk(c)
    \/ ChmodFail(c)

\* one caller at a time: a call starts only when no other call is running
CallAlone(c) ==
    /\ \A d \in Callers \ {c} : pc[d] \in {"idle", "done"}
    /\ \E name \in Names, u \in URLs : InstallFromURL(c, name, u)

\* concurrent call sites, each installing from the same URL
CallAny(c) ==
    \E name \in Names : InstallFromURL(c, name, "u1")

\* the caller of the sequential runs
SeqCallers == {"c1"}

NextInstall == \E c \in SeqCallers : CallAlone(c) \/ Step(c)

NextRace == \E c \in Callers : CallAny(c) \/ Step(c)

(***************************************************************************)
(* The command facade.  An external process is one run of stepman or       *)
(* envman: whether it could be started, the code it exited with, and the   *)
(* characters it wrote, in order, each on stdout or on stderr.             *)
(***************************************************************************)
\* the levels log.GetLevel().String() may name
LogLevels == {"debug", "info"}

ExitCodes == {0, 1, 3}

\* one character written by the process: <<stream, character>>
Events == {<<"out", "o">>, <<"out", "\n">>, <<"err", "e">>, <<"err", "\n">>}

EventSeqs == UNION {[1..n -> Events] : n \in 0..MaxEvents}

Outcomes ==
    {[started |-> FALSE, code |-> 0, events |-> <<>>]}
        \cup {[started |-> TRUE, code |-> n, events |-> ev] : n \in ExitCodes, ev \in EventSeqs}

Chars(ev) == [i \in 1..Len(ev) |-> ev[i][2]]

\* what the process wrote to stdout, to stderr, and to both in the order written
StdoutText(o) == Chars(SelectSeq(o.events, LAMBDA e : e[1] = "out"))

StderrText(o) == Chars(SelectSeq(o.events, LAMBDA e : e[1] = "err"))

MergedText(o) == Chars(o.events)

IsSpace(ch) == ch \in {" ", "\n"}

RECURSIVE TrimLeft(_)
TrimLeft(t) == IF t # <<>> /\ IsSpace(Head(t)) THEN TrimLeft(Tail(t)) ELSE t

RECURSIVE TrimRight(_)
TrimRight(t) ==
    IF t # <<>> /\ IsSpace(t[Len(t)]) THEN TrimRight(SubSeq(t, 1, Len(t) - 1)) ELSE t

\* strings.TrimSpace
TrimSpace(t) == TrimRight(TrimLeft(t))

\* An error value: the wrapping formats applied to it, outermost first, the
\* underlying cause with its exit code, and the text embedded in the message.
NoErr == [wrap |-> <<>>, cause |-> "nil", code |-> 0, details |-> <<>>]

\* exec.Cmd.Run on a process that could not be started, or exited non-zero
RunErr(o) ==
    IF ~o.started THEN [wrap |-> <<>>, cause |-> "exec: not started", code |-> 0, details |-> <<>>]
    ELSE IF o.code # 0 THEN [wrap |-> <<>>, cause |-> "exit status", code |-> o.code, details |-> <<>>]
    ELSE NoErr

\* errorutil.IsExitStatusError
IsExitStatusError(e) == e.cause = "exit status"

\* cmdex.RunCommand: the streams are inherited, the run's error is returned
RunCommand(o) == [text |-> <<>>, code |-> 0, err |-> RunErr(o)]

\* mutant: stdout alone is captured (exec.Cmd.Output)
RunCommandAndReturnStdout(o) ==
    [text |-> TrimSpace(StdoutText(o)), code |-> 0, err |-> RunErr(o)]

\* cmdex.RunCommandAndReturnCombinedStdoutAndStderr: exec.Cmd.CombinedOutput,
\* trimmed, beside the run's error
RunCommandAndReturnCombinedStdoutAndStderr(o) ==
    [text |-> TrimSpace(MergedText(o)), code |-> 0, err |-> RunErr(o)]

\* mutant: both streams are written to the one buffer that is returned
RunCommandWithOneBuffer(o) ==
    LET outBuffer == MergedText(o)
        errBuffer == StderrText(o)
        err == RunErr(o)
    IN IF err # NoErr
         THEN [text |-> outBuffer, code |-> 0,
               err |-> [err EXCEPT !.wrap = <<"Error: %s, details: %s">> \o @,
                                   !.details = errBuffer]]
         ELSE [text |-> outBuffer, code |-> 0, err |-> NoErr]

\* cmdex.RunCommandWithWriters into outBuffer and errBuffer, and what the
\* JSON operations return from the buffers
RunCommandWithBuffers(o) ==
    LET outBuffer == StdoutText(o)
        errBuffer == StderrText(o)
        err == RunErr(o)
    IN IF err # NoErr
         THEN [text |-> outBuffer, code |-> 0,
               err |-> [err EXCEPT !.wrap = <<"Error: %s, details: %s">> \o @,
                                   !.details = errBuffer]]
         ELSE [text |-> outBuffer, code |-> 0, err |-> NoErr]

\* mutant: any failure is reported as exit code 1
RunCommandInDirAndReturnOne(o) ==
    [text |-> <<>>, code |-> IF o.started /\ o.code # 0 THEN 1 ELSE 0, err |-> RunErr(o)]

\* cmdex.RunCommandInDirAndReturnExitCode: the exit status beside the run's error
RunCommandInDirAndReturnExitCode(o) ==
    [text |-> <<>>, code |-> IF o.started THEN o.code ELSE 0, err |-> RunErr(o)]

\* RunAndReturnTrimmedCombinedOutput and the error EnvmanClear builds from it
ClearResult(o) ==
    LET out == TrimSpace(MergedText(o))
        err == RunErr(o)
    IN IF err # NoErr
         THEN [text |-> <<>>, code |-> 0,
               err |-> [err EXCEPT !.wrap = <<"failed to clear envstore (%s), error: %s">> \o @,
                                   !.details = IF IsExitStatusError(err) /\ out # <<>>
                                                 THEN out ELSE <<>>]]
         ELSE [text |-> <<>>, code |-> 0, err |-> NoErr]

(***************************************************************************)
(* Arguments of the operations.                                            *)
(***************************************************************************)
Collections == {"lib1", "lib2"}

StepIDs == {"script"}

Versions == {"1.0"}

Pths == {"p1", "p2"}

Values == {"", "v"}

\* the command EnvmanRun hands to envman
Cmds == {<<"bash", "step.sh">>, <<"true">>}

NoInv ==
    [op |-> "none", exe |-> "", args |-> <<>>, level |-> "", dir |-> "", stdin |-> "",
     mode |-> "none"]

NoProc == [started |-> FALSE, code |-> 0, events |-> <<>>]

\* the result slot of an operation that has not returned
Pending == [text |-> <<>>, code |-> 0, err |-> NoErr]

InitFacade ==
    /\ logLevel = "info"
    /\ inv = NoInv
    /\ running = FALSE
    /\ proc = NoProc
    /\ res = Pending

\* log.SetLevel, by the program around this package
SetLevel(l) ==
    /\ l # logLevel
    /\ logLevel' = l
    /\ UNCHANGED <<inv, running, proc, res, installVars>>

\* An operation builds its arguments at the ambient log level and starts the
\* executable; it blocks until the process is over.  mode names the runner the
\* operation calls.
Invoke(op, exe, args, dir, stdin, mode) ==
    /\ ~running
    /\ inv' = [op |-> op, exe |-> exe, args |-> args, level |-> logLevel,
               dir |-> dir, stdin |-> stdin, mode |-> mode]
    /\ running' = TRUE
    /\ proc' = NoProc
    /\ res' = Pending
    /\ UNCHANGED <<logLevel, installVars>>

\* what the operation returns once the process is over, by the runner it called
Returned(mode, o) ==
    CASE mode = "Inherited" -> RunCommand(o)
      [] mode = "Combined" -> RunCommandAndReturnCombinedStdoutAndStderr(o)
      [] mode = "Writers" -> RunCommandWithBuffers(o)
      [] mode = "ExitCode" -> RunCommandInDirAndReturnExitCode(o)
      [] mode = "Clear" -> ClearResult(o)

\* the process is over (or could not be started) and the operation returns
Return ==
    /\ running
    /\ \E o \in Outcomes :
          /\ proc' = o
          /\ res' = Returned(inv.mode, o)
    /\ running' = FALSE
    /\ UNCHANGED <<logLevel, inv, installVars>>

StepmanSetupArgs(lvl, collection) ==
    <<"--debug", "--loglevel", lvl, "setup", "--collection", collection>>

StepmanSetup ==
    \E collection \in Collections :
        Invoke("StepmanSetup", "stepman", StepmanSetupArgs(logLevel, collection), "", "",
               "Inherited")

StepmanActivateArgs(lvl, collection, stepID, stepVersion, dir, ymlPth) ==
    <<"--debug", "--loglevel", lvl, "activate", "--collection", collection,
      "--id", stepID, "--version", stepVersion, "--path", dir, "--copyyml", ymlPth>>

StepmanActivate ==
    \E collection \in Collections, stepID \in StepIDs, stepVersion \in Versions,
       dir \in Pths, ymlPth \in Pths :
        Invoke("StepmanActivate", "stepman",
               StepmanActivateArgs(logLevel, collection, stepID, stepVersion, dir, ymlPth),
               "", "", "Inherited")

StepmanUpdateArgs(lvl, collection) ==
    <<"--debug", "--loglevel", lvl, "update", "--collection", collection>>

StepmanUpdate ==
    \E collection \in Collections :
        Invoke("StepmanUpdate", "stepman", StepmanUpdateArgs(logLevel, collection), "", "",
               "Inherited")

StepLibStepInfoArgs(lvl, collection, stepID, stepVersion, format) ==
    <<"--debug", "--loglevel", lvl, "step-info", "--collection", collection,
      "--id", stepID, "--version", stepVersion, "--format", format>>

StepmanRawStepLibStepInfo ==
    \E collection \in Collections, stepID \in StepIDs, stepVersion \in Versions :
        Invoke("StepmanRawStepLibStepInfo", "stepman",
               StepLibStepInfoArgs(logLevel, collection, stepID, stepVersion, "raw"), "", "",
               "Combined")

LocalStepInfoArgs(lvl, pth, format) ==
    <<"--debug", "--loglevel", lvl, "step-info", "--step-yml", pth, "--format", format>>

StepmanRawLocalStepInfo ==
    \E pth \in Pths :
        Invoke("StepmanRawLocalStepInfo", "stepman", LocalStepInfoArgs(logLevel, pth, "raw"),
               "", "", "Combined")

StepmanJSONStepLibStepInfo ==
    \E collection \in Collections, stepID \in StepIDs, stepVersion \in Versions :
        Invoke("StepmanJSONStepLibStepInfo", "stepman",
               StepLibStepInfoArgs(logLevel, collection, stepID, stepVersion, "json"), "", "",
               "Writers")

StepmanJSONLocalStepInfo ==
    \E pth \in Pths :
        Invoke("StepmanJSONLocalStepInfo", "stepman", LocalStepInfoArgs(logLevel, pth, "json"),
               "", "", "Writers")

StepListArgs(lvl, collection, format) ==
    <<"--debug", "--loglevel", lvl, "step-list", "--collection", collection,
      "--format", format>>

StepmanRawStepList ==
    \E collection \in Collections :
        Invoke("StepmanRawStepList", "stepman", StepListArgs(logLevel, collection, "raw"),
               "", "", "Combined")

StepmanJSONStepList ==
    \E collection \in Collections :
        Invoke("StepmanJSONStepList", "stepman", StepListArgs(logLevel, collection, "json"),
               "", "", "Writers")

StepmanShareArgs(lvl) == <<"--loglevel", lvl, "share", "--toolmode">>

StepmanShare ==
    Invoke("StepmanShare", "stepman", StepmanShareArgs(logLevel), "", "", "Inherited")

StepmanShareAuditArgs(lvl) == <<"--loglevel", lvl, "share", "audit", "--toolmode">>

StepmanShareAudit ==
    Invoke("StepmanShareAudit", "stepman", StepmanShareAuditArgs(logLevel), "", "",
               "Inherited")

StepmanShareCreateArgs(lvl, tag, git, stepID) ==
    <<"--loglevel", lvl, "share", "create", "--tag", tag, "--git", git,
      "--stepid", stepID, "--toolmode">>

StepmanShareCreate ==
    \E tag \in Versions, git \in Pths, stepID \in StepIDs :
        Invoke("StepmanShareCreate", "stepman",
               StepmanShareCreateArgs(logLevel, tag, git, stepID), "", "", "Inherited")

StepmanShareFinishArgs(lvl) == <<"--loglevel", lvl, "share", "finish", "--toolmode">>

StepmanShareFinish ==
    Invoke("StepmanShareFinish", "stepman", StepmanShareFinishArgs(logLevel), "", "",
               "Inherited")

StepmanShareStartArgs(lvl, collection) ==
    <<"--loglevel", lvl, "share", "start", "--collection", collection, "--toolmode">>

StepmanShareStart ==
    \E collection \in Collections :
        Invoke("StepmanShareStart", "stepman", StepmanShareStartArgs(logLevel, collection),
               "", "", "Inherited")

\* mutant: the level is a fixed word, not the ambient one
EnvmanInitArgsFixedLevel(lvl) == <<"--loglevel", "info", "init">>

EnvmanInitArgs(lvl) == <<"--loglevel", lvl, "init">>

EnvmanInit ==
    Invoke("EnvmanInit", "envman", EnvmanInitArgs(logLevel), "", "", "Inherited")

EnvmanInitAtPathArgs(lvl, envstorePth) ==
    <<"--loglevel", lvl, "--path", envstorePth, "init", "--clear">>

EnvmanInitAtPath ==
    \E envstorePth \in Pths :
        Invoke("EnvmanInitAtPath", "envman", EnvmanInitAtPathArgs(logLevel, envstorePth),
               "", "", "Inherited")

EnvmanAddArgs(lvl, envstorePth, key, expand, skipIfEmpty) ==
    <<"--loglevel", lvl, "--path", envstorePth, "add", "--key", key, "--append">>
        \o (IF ~expand THEN <<"--no-expand">> ELSE <<>>)
        \o (IF skipIfEmpty THEN <<"--skip-if-empty">> ELSE <<>>)

\* the value goes to the process's stdin; stdout and stderr are inherited
EnvmanAdd ==
    \E envstorePth \in Pths, key \in StepIDs, value \in Values,
       expand \in BOOLEAN, skipIfEmpty \in BOOLEAN :
        Invoke("EnvmanAdd", "envman",
               EnvmanAddArgs(logLevel, envstorePth, key, expand, skipIfEmpty), "", value,
               "Inherited")

EnvmanClearArgs(lvl, envstorePth) == <<"--loglevel", lvl, "--path", envstorePth, "clear">>

EnvmanClear ==
    \E envstorePth \in Pths :
        Invoke("EnvmanClear", "envman", EnvmanClearArgs(logLevel, envstorePth), "", "",
               "Clear")

EnvmanRunArgs(lvl, envstorePth, cmd) ==
    <<"--loglevel", lvl, "--path", envstorePth, "run">> \o cmd

\* envman run exits with the exit code of the command it ran
EnvmanRun ==
    \E envstorePth \in Pths, workDirPth \in Pths, cmd \in Cmds :
        Invoke("EnvmanRun", "envman", EnvmanRunArgs(logLevel, envstorePth, cmd),
               workDirPth, "", "ExitCode")

EnvmanJSONPrintArgs(lvl, envstorePth) ==
    <<"--loglevel", lvl, "--path", envstorePth, "print", "--format", "json", "--expand">>

EnvmanJSONPrint ==
    \E envstorePth \in Pths :
        Invoke("EnvmanJSONPrint", "envman", EnvmanJSONPrintArgs(logLevel, envstorePth),
               "", "", "Writers")

NextFacade ==
    \/ \E l \in LogLevels : SetLevel(l)
    \/ Return
    \/ StepmanSetup
    \/ StepmanActivate
    \/ StepmanUpdate
    \/ StepmanRawStepLibStepInfo
    \/ StepmanRawLocalStepInfo
    \/ StepmanJSONStepLibStepInfo
    \/ StepmanJSONLocalStepInfo
    \/ StepmanRawStepList
    \/ StepmanJSONStepList
    \/ StepmanShare
    \/ StepmanShareAudit
    \/ StepmanShareCreate
    \/ StepmanShareFinish
    \/ StepmanShareStart
    \/ EnvmanInit
    \/ EnvmanInitAtPath
    \/ EnvmanAdd
    \/ EnvmanClear
    \/ EnvmanRun
    \/ EnvmanJSONPrint

(***************************************************************************)
(* Properties of the installer, one caller at a time (SpecInstall).        *)
(***************************************************************************)
EmptyNameError(u) == <<"No Tool (bin) Name provided!", u>>

TransportError(u) == <<"failed to download from", u, "transport">>

CopyError(u) == <<"failed to download from", u, "copy">>

CreateError(c) == <<"failed to create">> \o destinationPth(c)

\* C2: a call of InstallFromURL with an empty binary name returns the
\* empty-name error, whatever the URL, in a step that performs no I/O: the
\* file system is left as it was, no file is opened, no request is issued and
\* no chmod is attempted.
C2_EmptyNameNoIO ==
    [][\A c \in Callers :
          (pc[c] \in {"idle", "done"} /\ <<pc[c], binName[c], url[c], ret[c], io[c]>>' #
                                         <<pc[c], binName[c], url[c], ret[c], io[c]>>
             /\ binName'[c] = "")
          => /\ ret'[c] = EmptyNameError(url'[c])
             /\ pc'[c] = "done"
             /\ fs' = fs
             /\ io'[c] = {}
             /\ ~outFile'[c].open
             /\ ~resp'[c].open]_vars

\* C2 witness: an empty-name call has returned its error for the second URL
\* beside a file installed earlier that still holds its bytes
C2_Witness ==
    \E c \in Callers :
        /\ pc[c] = "done"
        /\ binName[c] = ""
        /\ ret[c] = EmptyNameError("u2")
        /\ io[c] = {}
        /\ \E p \in Paths : fs[p].exists /\ fs[p].content # <<>>

\* C3: whenever DownloadFile returns (file creation failed, the GET failed,
\* the copy failed, or success) the file handle and the response body are no
\* longer open, and the error returned is the one of the stage that ended the
\* call, whether or not a Close failed and was logged.
C3_ReleasedOnEveryExit ==
    [][\A c \in Callers :
          (pc[c] \in {"create", "get", "copy"} /\ pc'[c] \in {"chmod", "done"})
          => /\ ~outFile'[c].open
             /\ ~resp'[c].open
             /\ pc[c] = "create" => dl'[c] = CreateError(c)
             /\ pc[c] = "get" => dl'[c] = TransportError(url[c])
             /\ pc[c] = "copy" => dl'[c] \in {Nil, CopyError(url[c])}
             /\ (dl'[c] = Nil) = (pc'[c] = "chmod")
             /\ dl'[c] # Nil => ret'[c] = Wrap("Failed to download", dl'[c])]_vars

\* C3 witness: DownloadFile returned success although a Close failed
C3_Witness ==
    \E c \in Callers :
        /\ pc[c] = "chmod"
        /\ warned[c]
        /\ dl[c] = Nil
        /\ ~outFile[c].open
        /\ ~resp[c].open
        /\ resp[c].body # <<>>

\* C7: when a call of InstallFromURL has returned success, the file at
\* {toolsDir}/{binName} holds exactly the payload of that call and has mode
\* 0755 (execute for owner, group and other), whatever it held before: the
\* state is a function of the payload alone, so a second install of the same
\* payload leaves it as the first did.
C7_InstallOverwrites ==
    \A c \in SeqCallers :
        (pc[c] = "done" /\ binName[c] # "" /\ ret[c] = Nil)
        => /\ fs[destinationPth(c)] =
                 [exists |-> TRUE, content |-> resp[c].body, mode |-> ExecMode]
           /\ HasExec(fs[destinationPth(c)].mode)

\* C7 witness: a successful install of a one-byte payload
C7_Witness ==
    \E c \in SeqCallers :
        /\ pc[c] = "done"
        /\ binName[c] # ""
        /\ ret[c] = Nil
        /\ io[c] = {"create", "get", "write", "chmod"}
        /\ Len(resp[c].body) = 1
        /\ fs[destinationPth(c)].content = resp[c].body

\* C8: when the GET fails at transport level, DownloadFile returns the
\* network error, the destination exists and is empty (what was installed
\* there before is gone), and InstallFromURL returns the download error
\* without attempting the chmod.
C8_UnreachableLeavesEmptyFile ==
    \A c \in SeqCallers :
        (pc[c] = "done" /\ dl[c] = TransportError(url[c]))
        => /\ fs[destinationPth(c)].exists
           /\ fs[destinationPth(c)].content = <<>>
           /\ ret[c] = Wrap("Failed to download", TransportError(url[c]))
           /\ "chmod" \notin io[c]
           /\ io[c] = {"create", "get"}

\* C8 witness: the GET failed over a file that had been made executable by an
\* earlier install
C8_Witness ==
    \E c \in SeqCallers :
        /\ pc[c] = "done"
        /\ dl[c] = TransportError(url[c])
        /\ fs[destinationPth(c)].exists
        /\ fs[destinationPth(c)].content = <<>>
        /\ fs[destinationPth(c)].mode = ExecMode

\* C10: the status of the response plays no part: a download error is a
\* create, a transport or a copy error; once the copy has completed
\* DownloadFile has returned nil with the body in the destination, whatever
\* the status; and when InstallFromURL then returns success the file is
\* executable (0755).
C10_StatusNotInspected ==
    \A c \in SeqCallers :
        /\ dl[c] \in {Nil, CreateError(c), TransportError(url[c]), CopyError(url[c])}
        /\ pc[c] = "chmod"
             => /\ dl[c] = Nil
                /\ fs[destinationPth(c)].content = resp[c].body
        /\ (pc[c] = "done" /\ resp[c].status # 0 /\ dl[c] = Nil /\ ret[c] = Nil)
             => /\ fs[destinationPth(c)].content = resp[c].body
                /\ fs[destinationPth(c)].mode = ExecMode

\* C10 witness: a 404 answer has been installed as an executable
C10_Witness ==
    \E c \in SeqCallers :
        /\ pc[c] = "done"
        /\ resp[c].status = 404
        /\ resp[c].body # <<>>
        /\ ret[c] = Nil
        /\ fs[destinationPth(c)].content = resp[c].body
        /\ fs[destinationPth(c)].mode = ExecMode

(***************************************************************************)
(* Concurrent callers (SpecRace).                                          *)
(***************************************************************************)
\* both calls have returned success for the same destination
BothInstalled(c, d) ==
    /\ c # d
    /\ pc[c] = "done" /\ pc[d] = "done"
    /\ binName[c] # "" /\ binName[c] = binName[d]
    /\ ret[c] = Nil /\ ret[d] = Nil
    /\ "chmod" \in io[c] /\ "chmod" \in io[d]

\* C9: no step of a call waits for another call on the same destination
\* (os.Create, each write of the copy and os.Chmod can happen wherever the
\* other call stands), and when two calls on one destination have both
\* returned success the file is executable and each of its bytes is the byte
\* one of the two payloads has at that offset, or a hole: not necessarily the
\* bytes of one payload.
C9_NoSerialization ==
    \A c \in Callers :
        /\ pc[c] = "create" => ENABLED CreateOk(c)
        /\ (pc[c] = "copy" /\ outFile[c].off < Len(resp[c].body)) => ENABLED CopyByte(c)
        /\ pc[c] = "chmod" => ENABLED ChmodOk(c)
        /\ \A d \in Callers :
              BothInstalled(c, d)
              => LET f == fs[destinationPth(c)]
                     a == resp[c].body
                     b == resp[d].body
                 IN /\ f.exists
                    /\ f.mode = ExecMode
                    /\ Len(f.content) <= IF Len(a) > Len(b) THEN Len(a) ELSE Len(b)
                    /\ \A i \in 1..Len(f.content) :
                          \/ i <= Len(a) /\ f.content[i] = a[i]
                          \/ i <= Len(b) /\ f.content[i] = b[i]
                          \/ f.content[i] = 0

\* C9 witness: both calls returned success and the file holds neither payload
C9_Witness ==
    \E c, d \in Callers :
        /\ BothInstalled(c, d)
        /\ fs[destinationPth(c)].content # resp[c].body
        /\ fs[destinationPth(c)].content # resp[d].body

(***************************************************************************)
(* Properties of the command facade (SpecFacade).                          *)
(***************************************************************************)
\* the operations whose argument list the source starts with --debug
DebugOps ==
    {"StepmanSetup", "StepmanActivate", "StepmanUpdate", "StepmanRawStepLibStepInfo",
     "StepmanRawLocalStepInfo", "StepmanJSONStepLibStepInfo", "StepmanJSONLocalStepInfo",
     "StepmanRawStepList", "StepmanJSONStepList"}

\* the words that name a sub-command or belong to one
SubCommandWords ==
    {"setup", "activate", "update", "step-info", "step-list", "share", "init", "add",
     "clear", "run", "print", "--collection", "--id", "--version", "--format",
     "--step-yml", "--copyyml", "--toolmode", "--key", "--append", "--clear", "--expand"}

\* C1 as stated: the first two arguments of every operation are the log-level
\* flag and the ambient log level.
C1_LogLevelFirst ==
    inv.op # "none" => inv.args[1] = "--loglevel" /\ inv.args[2] = inv.level

\* C1 amended: every operation passes the log-level flag immediately followed
\* by the ambient log level before any sub-command word; the pair is the first
\* two arguments of the StepmanShare* and Envman* operations, and follows a
\* leading --debug in the other Stepman operations.
C1_LogLevelBeforeSubCommand ==
    inv.op # "none"
    => LET k == IF inv.op \in DebugOps THEN 1 ELSE 0
       IN /\ k = 1 => inv.args[1] = "--debug"
          /\ inv.args[k + 1] = "--loglevel"
          /\ inv.args[k + 2] = inv.level
          /\ \A i \in 1..(k + 2) : inv.args[i] \notin SubCommandWords
          /\ \E i \in (k + 3)..Len(inv.args) : inv.args[i] \in SubCommandWords

\* C1 witness: an operation whose list starts with --debug, called at a level
\* that is not the initial one
C1_Witness ==
    /\ inv.op = "StepmanSetup"
    /\ inv.level = "debug"
    /\ inv.args[3] = "debug"

\* the characters of events written to stream s, in order
RECURSIVE WrittenTo(_, _)
WrittenTo(ev, s) ==
    IF ev = <<>> THEN <<>>
    ELSE (IF Head(ev)[1] = s THEN <<Head(ev)[2]>> ELSE <<>>) \o WrittenTo(Tail(ev), s)

RECURSIVE WrittenAll(_)
WrittenAll(ev) == IF ev = <<>> THEN <<>> ELSE <<Head(ev)[2]>> \o WrittenAll(Tail(ev))

CombinedOps == {"StepmanRawStepLibStepInfo", "StepmanRawLocalStepInfo", "StepmanRawStepList"}

SplitOps ==
    {"StepmanJSONStepLibStepInfo", "StepmanJSONLocalStepInfo", "StepmanJSONStepList",
     "EnvmanJSONPrint"}

Failed == ~running /\ res.err # NoErr

\* t is s without the white space at its two ends
IsTrimOf(t, s) ==
    /\ t # <<>> => ~IsSpace(t[1]) /\ ~IsSpace(t[Len(t)])
    /\ \E i \in 0..Len(s) :
          /\ i + Len(t) <= Len(s)
          /\ \A j \in 1..Len(s) :
                IF j > i /\ j <= i + Len(t) THEN s[j] = t[j - i] ELSE IsSpace(s[j])

C5_SplitCapture ==
    (~running /\ inv.op \in SplitOps)
    => /\ (proc.started /\ proc.code = 0)
            => /\ res.err = NoErr
               /\ res.text = WrittenTo(proc.events, "out")
               /\ \A i \in 1..Len(res.text) : res.text[i] # "e"
       /\ ~(proc.started /\ proc.code = 0)
            => /\ res.err.wrap = <<"Error: %s, details: %s">>
               /\ res.err.cause = IF proc.started THEN "exit status" ELSE "exec: not started"
               /\ res.err.code = proc.code
               /\ res.err.details = WrittenTo(proc.events, "err")

\* C5 witness: a successful JSON print whose process also wrote to stderr
C5_Witness ==
    /\ ~running
    /\ inv.op = "EnvmanJSONPrint"
    /\ proc.started /\ proc.code = 0
    /\ proc.events = <<<<"err", "e">>, <<"out", "o">>>>
    /\ res.text = <<"o">>

Init == InitInstall /\ InitFacade

SpecInstall == Init /\ [][NextInstall]_vars

SpecRace == Init /\ [][NextRace]_vars

\* the facade touches no installed file: its runs start from an empty tools directory
InitNoFiles == Init /\ \A p \in Paths : ~fs[p].exists

SpecFacade == InitNoFiles /\ [][NextFacade]_vars

====
